---- MODULE Spec2Model ----
(***************************************************************************)
(* Model of the summarization pipeline of src/phrack-llm.py:               *)
(* PhackSummarizer.process_articles with the calls it makes                *)
(* (find_all_articles, read_article, summarize_article, the fence          *)
(* stripping, json.loads, json.dump) and the exception handlers of main.   *)
(*                                                                         *)
(* Text is modelled as a sequence of tokens (a fence marker, a word, a     *)
(* JSON punctuation mark, a quoted string literal, a whitespace            *)
(* character).                                                             *)
(*                                                                         *)
(* Spec is the pipeline.  FenceSpec applies the fence stripping of         *)
(* process_articles to responses on its own, Base64Spec applies            *)
(* remove_base64_blocks of src/tools/remove_base64.py to texts.            *)
(***************************************************************************)
EXTENDS Naturals, Integers, Sequences, FiniteSets, TLC

\* ---------------------------------------------------------------- bounds
\* Largest corpus (number of .txt files under the root) considered.
MaxDocs == 4

\* Largest number of lines of a text handed to remove_base64_blocks.
MaxLines == 6

\* Largest number of tokens of a record that reach the disk when a write is
\* cut short (by an interrupt or by an I/O error).
MaxFlushed == 0

\* ------------------------------------------------------ program constants
\* summarize_article(..., max_retries: int = 3)
max_retries == 3

\* max_attempts = 3 in process_articles
max_attempts == 3

\* random.sample(articles, min(3, len(articles)))
SampleSize == 3

\* ------------------------------------------------------------------ text
Min(a, b) == IF a <= b THEN a ELSE b

\* the fence marker (three backquotes), one token
FENCE == "<fence>"

WS == {" ", "\n"}

StrToks == {"\"a\"", "\"b\""}

RECURSIVE lstrip(_)
lstrip(s) == IF s # <<>> /\ Head(s) \in WS THEN lstrip(Tail(s)) ELSE s

RECURSIVE rstrip(_)
rstrip(s) ==
    IF s # <<>> /\ s[Len(s)] \in WS THEN rstrip(SubSeq(s, 1, Len(s) - 1)) ELSE s

\* str.strip()
strip(s) == rstrip(lstrip(s))

\* str.startswith(p)
startswith(s, p) == Len(s) >= Len(p) /\ SubSeq(s, 1, Len(p)) = p

\* str.find(sep) + 1: the first position where sep occurs in s, 0 when none
find(s, sep) ==
    LET hits == {k \in 1..Len(s) : startswith(SubSeq(s, k, Len(s)), sep)}
    IN  IF hits = {} THEN 0 ELSE CHOOSE k \in hits : \A h \in hits : k <= h

\* str.split(sep)
RECURSIVE split(_, _)
split(s, sep) ==
    LET k == find(s, sep)
    IN  IF k = 0
        THEN <<s>>
        ELSE <<SubSeq(s, 1, k - 1)>> \o split(SubSeq(s, k + Len(sep), Len(s)), sep)

\* The fence stripping of process_articles (lines 202-206).
CleanSummary(summary) ==
    LET summary_clean == strip(summary)
    IN  IF startswith(summary_clean, <<FENCE, "json">>)
        THEN strip(split(split(summary_clean, <<FENCE, "json">>)[2], <<FENCE>>)[1])
        ELSE IF startswith(summary_clean, <<FENCE>>)
        THEN strip(split(split(summary_clean, <<FENCE>>)[2], <<FENCE>>)[1])
        ELSE summary_clean

\* ------------------------------------------------------------------ JSON
\* A JSON value: t is "null", "str" or "obj"; s the literal of a string;
\* m the members of an object, each <<key literal, value>>.
\* Python's None is JSON's null.
JNull == [t |-> "null", s |-> "", m |-> <<>>]

JStr(x) == [t |-> "str", s |-> x, m |-> <<>>]

JObj(members) == [t |-> "obj", s |-> "", m |-> members]

ParseError == [ok |-> FALSE, val |-> JNull, nxt |-> 0]

Parsed(v, n) == [ok |-> TRUE, val |-> v, nxt |-> n]

At(s, p) == IF p \in 1..Len(s) THEN s[p] ELSE "<eof>"

RECURSIVE ParseValue(_, _)
RECURSIVE ParseMembers(_, _, _)
\* the value that starts at position p of the whitespace-free token list s
ParseValue(s, p) ==
    IF At(s, p) \in StrToks THEN Parsed(JStr(s[p]), p + 1)
    ELSE IF At(s, p) = "null" THEN Parsed(JNull, p + 1)
    ELSE IF At(s, p) = "{"
         THEN IF At(s, p + 1) = "}"
              THEN Parsed(JObj(<<>>), p + 2)
              ELSE ParseMembers(s, p + 1, <<>>)
    ELSE ParseError

\* the members of an object from position p on, acc those already read
ParseMembers(s, p, acc) ==
    IF At(s, p) \in StrToks /\ At(s, p + 1) = ":"
    THEN LET v == ParseValue(s, p + 2)
         IN  IF ~v.ok THEN ParseError
             ELSE IF At(s, v.nxt) = "}"
                  THEN Parsed(JObj(Append(acc, <<s[p], v.val>>)), v.nxt + 1)
             ELSE IF At(s, v.nxt) = ","
                  THEN ParseMembers(s, v.nxt + 1, Append(acc, <<s[p], v.val>>))
             ELSE ParseError
    ELSE ParseError

\* json.loads: ok is FALSE where Python raises json.JSONDecodeError
json_loads(text) ==
    LET s == SelectSeq(text, LAMBDA tok : tok \notin WS)
        r == ParseValue(s, 1)
    IN  IF r.ok /\ r.nxt = Len(s) + 1 THEN r ELSE ParseError

\* Python truth value of a parsed JSON value: `if summary_json:`
Truthy(v) ==
    CASE v.t = "obj" -> Len(v.m) > 0
      [] v.t = "str" -> v.s # "\"\""
      [] OTHER -> FALSE

RECURSIVE DumpValue(_)
RECURSIVE DumpMembers(_)
\* json.dump(value, f, indent=2, ensure_ascii=False)
DumpValue(v) ==
    CASE v.t = "str" -> <<v.s>>
      [] v.t = "obj" -> IF v.m = <<>>
                        THEN <<"{", "}">>
                        ELSE <<"{", "\n">> \o DumpMembers(v.m) \o <<"\n", "}">>
      [] OTHER -> <<"null">>

DumpMembers(m) ==
    LET one == <<" ", m[1][1], ":", " ">> \o DumpValue(m[1][2])
    IN  IF Len(m) = 1 THEN one ELSE one \o <<",", "\n">> \o DumpMembers(Tail(m))

\* ------------------------------------------------------------ documents
Docs == 1..MaxDocs

\* A document is identified by its position in the order in which the
\* recursive glob yields the files (the order of the directory entries, which
\* the program does not control).  RelPath(d) is str(rel_path) of document d,
\* a sequence of code points:
\*   "b.txt", "10.txt", "a/c.txt", "a.txt", "2.txt", "B.txt"
RelPath(d) ==
    <<  <<98, 46, 116, 120, 116>>,
        <<49, 48, 46, 116, 120, 116>>,
        <<97, 47, 99, 46, 116, 120, 116>>,
        <<97, 46, 116, 120, 116>>,
        <<50, 46, 116, 120, 116>>,
        <<66, 46, 116, 120, 116>>  >>[d]

\* p < q for two Python strings: by code point at the first difference, a
\* proper prefix before the longer string
LexLess(p, q) ==
    \E k \in 1..(Min(Len(p), Len(q)) + 1) :
        /\ \A j \in 1..(k - 1) : p[j] = q[j]
        /\ \/ k > Len(p) /\ k <= Len(q)
           \/ k <= Len(p) /\ k <= Len(q) /\ p[k] < q[k]

RECURSIVE SortedSeq(_)
\* list.sort(key=lambda x: x[1]) of the files the recursive glob yields
SortedSeq(S) ==
    IF S = {} THEN <<>>
    ELSE LET least == CHOOSE d \in S :
                          \A e \in S \ {d} : LexLess(RelPath(d), RelPath(e))
         IN  <<least>> \o SortedSeq(S \ {least})

\* the files in the order the glob yields them, without the sort of line 101
find_all_articles_unsorted(n) == [k \in 1..n |-> k]

\* find_all_articles: the .txt files under the root, sorted by relative path
find_all_articles(n) == SortedSeq(1..n)

Range(f) == {f[k] : k \in DOMAIN f}

\* a sample drawn with replacement
random_choices(population, k) == [1..k -> Range(population)]

\* random.sample(population, k): every list of k distinct members
random_sample(population, k) ==
    {s \in [1..k -> Range(population)] : \A a, b \in 1..k : s[a] = s[b] => a = b}

\* a file that does not exist
NoFile == [exists |-> FALSE, data |-> <<>>]

\* a file with the given content
File(content) == [exists |-> TRUE, data |-> content]

\* What the model service may answer (message.content) when the call returns:
\* text that is no JSON, whitespace only, an empty object, an object inside
\* a tagged fence.
RGarbage == <<"oops">>

RBlank == <<"\n">>

REmptyObj == <<"{", "}">>

RBare == <<"{", "\"a\"", ":", "\"b\"", "}">>

RFencedJson == <<FENCE, "json", "\n", "{", "\"a\"", ":", "\"b\"", "}", "\n", FENCE>>

RFenced == <<FENCE, "\n", "{", "\"b\"", ":", "\"a\"", "}", "\n", FENCE>>

Responses == {RGarbage, RBlank, REmptyObj, RFencedJson}

\* ----------------------------------------------------------------- state
VARIABLES
    ndocs,          \* number of .txt files under the corpus root
    files,          \* the sidecar (.json) file of each document
    opens,          \* how often each sidecar was opened for writing (history)
    pc,             \* "start", "loop", "call", "open", "dump", "exit"
    status,         \* "running" or how the invocation ended
    test_mode,      \* self.test_mode
    found,          \* len(articles) as printed by "Found ... articles total."
    total,          \* len(articles) of the list the loop iterates
    pending,        \* the part of articles the for loop has yet to yield
    i,              \* enumerate index: number of documents taken so far
    cur,            \* (file_path, rel_path) of the loop, 0 before the first
    success_count,
    skipped_count,
    attempt,        \* index of the extraction attempt (line 193)
    api_attempt,    \* index of the API attempt inside summarize_article (line 127)
    summary,        \* last return value of summarize_article, <<>> when falsy
    summary_json,   \* parsed record, JNull for None
    outcome,        \* which branch ended the current document (history)
    calls,          \* API calls made for the current document (history)
    raised,         \* how many of them raised an exception (history)
    did_read,       \* read_article was called for the current document (history)
    api_used,       \* some API call was made in this invocation (history)
    all_present,    \* every document had a sidecar when the scan was done (history)
    report,         \* the counts stated by the final summary, as <<label, count>>
    config,         \* what __init__ finds: "ok" or what is wrong
    created,        \* sidecars opened for writing in this invocation (history)
    stage,          \* "pipeline", or the step of a function applied on its own
    text_in,        \* the argument of a function applied on its own
    text_out        \* its result

vars == <<ndocs, files, opens, pc, status, test_mode, found, total, pending,
          i, cur, success_count, skipped_count, attempt, api_attempt, summary,
          summary_json, outcome, calls, raised, did_read, api_used,
          all_present, report, config, created, stage, text_in, text_out>>

\* the variables of the functions applied on their own
pure == <<stage, text_in, text_out>>

\* what the constructor can find: all well, no API key (line 60), the root
\* missing (line 76), the root not a directory (line 78)
Configs == {"ok", "no_api_key", "missing", "not_a_directory"}

\* a constructor without the is_dir() check
ConfigValidNoDirCheck(c) == c \in {"ok", "not_a_directory"}

\* lines 59-79: __init__ raises no ValueError
ConfigValid(c) == c = "ok"

\* a root that is missing or is a file has no .txt files under it
ConfigPossible(c, n) == c \in {"missing", "not_a_directory"} => n = 0

disk == <<ndocs, files, opens>>

doc_locals == <<attempt, api_attempt, summary, summary_json>>

\* a check that takes an empty file for a missing one
SidecarExistsNonEmpty(d) == files[d].exists /\ files[d].data # <<>>

\* a check under another suffix than the one the record is written with:
\* no such file is ever there
SidecarOtherSuffix(d) == FALSE

\* json_path.exists()
SidecarExists(d) == files[d].exists

\* the list position: what the loop has consumed and what is left
iter == <<total, pending, i, cur>>

Init ==
    /\ ndocs \in 0..MaxDocs
    /\ files = [d \in Docs |-> NoFile]
    /\ opens = [d \in Docs |-> 0]
    /\ pc = "start"
    /\ status = "running"
    /\ test_mode = FALSE
    /\ found = 0
    /\ total = 0
    /\ pending = <<>>
    /\ i = 0
    /\ cur = 0
    /\ success_count = 0
    /\ skipped_count = 0
    /\ attempt = 0
    /\ api_attempt = 0
    /\ summary = <<>>
    /\ summary_json = JNull
    /\ outcome = "None"
    /\ calls = 0
    /\ raised = 0
    /\ did_read = FALSE
    /\ api_used = FALSE
    /\ all_present = FALSE
    /\ report = {}
    /\ config \in {c \in Configs : ConfigPossible(c, ndocs)}
    /\ created = 0
    /\ stage = "pipeline"
    /\ text_in = <<>>
    /\ text_out = <<>>

\* the process is gone: nothing of it is left but the files
ProcessState(st) ==
    /\ pc' = "exit"
    /\ status' = st

ClearRun ==
    /\ test_mode' = FALSE
    /\ found' = 0
    /\ total' = 0
    /\ pending' = <<>>
    /\ i' = 0
    /\ cur' = 0
    /\ success_count' = 0
    /\ skipped_count' = 0
    /\ attempt' = 0
    /\ api_attempt' = 0
    /\ summary' = <<>>
    /\ summary_json' = JNull
    /\ outcome' = "None"
    /\ calls' = 0
    /\ raised' = 0
    /\ did_read' = FALSE
    /\ api_used' = FALSE
    /\ all_present' = FALSE
    /\ report' = {}
    /\ created' = 0

\* ------------------------------------------------------- main, start of run
\* PhackSummarizer.__init__ raises ValueError (no API key, root missing, root
\* not a directory); main prints the error and exits with code 1.
StartConfigError ==
    /\ pc = "start"
    /\ ~ConfigValid(config)
    /\ ProcessState("config_error")
    /\ UNCHANGED <<disk, test_mode, found, iter, success_count,
                   skipped_count, doc_locals, outcome, calls, raised, did_read,
                   api_used, all_present, report, config, created, pure>>

\* a check that never finds the list empty
NoArticlesNever(all) == FALSE

\* line 159: `if not articles:`
NoArticles(all) == all = <<>>

\* process_articles lines 157-161: nothing found
StartNoArticles ==
    /\ pc = "start"
    /\ ConfigValid(config)
    /\ NoArticles(find_all_articles(ndocs))
    /\ ProcessState("no_articles")
    /\ UNCHANGED <<disk, test_mode, found, iter, success_count,
                   skipped_count, doc_locals, outcome, calls, raised, did_read,
                   api_used, all_present, report, config, created, pure>>

\* process_articles lines 157-170: scan, optional sampling, counters
StartRun ==
    /\ pc = "start"
    /\ ConfigValid(config)
    /\ LET all == find_all_articles(ndocs) IN
       /\ ~NoArticles(all)
       /\ found' = Len(all)
       /\ \E tm \in BOOLEAN :
            /\ test_mode' = tm
            /\ IF tm
               THEN pending' \in random_sample(all, Min(SampleSize, Len(all)))
               ELSE pending' = all
       /\ total' = Len(pending')
       /\ all_present' = \A d \in Range(all) : files[d].exists
    /\ success_count' = 0
    /\ skipped_count' = 0
    /\ i' = 0
    /\ cur' = 0
    /\ pc' = "loop"
    /\ UNCHANGED <<disk, status, doc_locals, outcome, calls, raised, did_read,
                   api_used, report, config, created, pure>>

\* ------------------------------------------------- the loop, per document
\* The loop head: the next document is taken from the list.  The locals of
\* the previous iteration are dead here (each is assigned before its next
\* use, lines 191 and 194) and are cleared.
TakeNext ==
    /\ pc = "loop"
    /\ pending # <<>>
    /\ cur' = Head(pending)
    /\ pending' = Tail(pending)
    /\ i' = i + 1
    /\ attempt' = 0
    /\ api_attempt' = 0
    /\ summary' = <<>>
    /\ summary_json' = JNull
    /\ calls' = 0
    /\ raised' = 0

\* a `return` in the place of falling through to the next iteration
EndDocumentReturn(o) ==
    /\ outcome' = o
    /\ pc' = "exit"

\* the iteration of the loop ends with the branch named o
EndDocument(o) ==
    /\ outcome' = o
    /\ pc' = "loop"

\* lines 176-180: the sidecar exists
VisitSkip ==
    /\ TakeNext
    /\ SidecarExists(Head(pending))
    /\ skipped_count' = skipped_count + 1
    /\ did_read' = FALSE
    /\ EndDocument("Skipped")
    /\ UNCHANGED <<disk, status, test_mode, found, total, success_count,
                   api_used, all_present, report, config, created, pure>>

\* lines 182-185: read_article returns None (an exception) or "" (empty file)
VisitUnreadable ==
    /\ TakeNext
    /\ ~SidecarExists(Head(pending))
    /\ \E content \in {"None", "empty"} : did_read' = TRUE
    /\ EndDocument("ReadFailed")
    /\ UNCHANGED <<disk, status, test_mode, found, total, success_count,
                   skipped_count, api_used, all_present, report, config,
                   created, pure>>

\* lines 182-191: the document is read, the extraction loop is entered
VisitRead ==
    /\ TakeNext
    /\ ~SidecarExists(Head(pending))
    /\ did_read' = TRUE
    /\ outcome' = "Discovered"
    /\ pc' = "call"
    /\ UNCHANGED <<disk, status, test_mode, found, total, success_count,
                   skipped_count, api_used, all_present, report, config,
                   created, pure>>

\* one API attempt too many
ApiRetriesOneMore(k) == k < max_retries

\* lines 127, 140: the except branch of summarize_article retries unless
\* this was the last pass of `for attempt in range(max_retries)`
ApiRetries(k) == k < max_retries - 1

\* one retry counter for both loops: the next call goes on where this one ended
SharedBudget(k) == k

\* lines 127, 194: every call of summarize_article runs its own
\* `for attempt in range(max_retries)`, from 0
FreshBudget(k) == 0

\* one extraction attempt too many
MoreAttemptsOneMore(a) == a < max_attempts

\* lines 193, 212: another extraction attempt follows a parse failure unless
\* this was the last pass of `for attempt in range(max_attempts)`
MoreAttempts(a) == a < max_attempts - 1

\* line 219: `if summary_json:`
RecordAccepted(v) == Truthy(v)

\* an answer without text taken for text
NoTextNever(content) == FALSE

\* lines 138, 196: the message content is None or empty, or stripping it
\* leaves nothing; `if not summary` holds for None and for ""
NoText(content) == strip(content) = <<>>

\* one API call is made (line 129)
ApiCalled ==
    /\ pc = "call"
    /\ calls' = calls + 1
    /\ api_used' = TRUE

\* lines 139-145: the call raises; retried until the last attempt, then
\* summarize_article returns None and line 197 leaves the extraction loop
ApiRaise ==
    /\ ApiCalled
    /\ raised' = raised + 1
    /\ IF ApiRetries(api_attempt)
       THEN /\ api_attempt' = api_attempt + 1
            /\ UNCHANGED <<pc, outcome, summary>>
       ELSE /\ summary' = <<>>
            /\ api_attempt' = FreshBudget(api_attempt)
            /\ EndDocument("ModelFailed")
    /\ UNCHANGED <<disk, status, test_mode, found, iter, success_count,
                   skipped_count, attempt, summary_json, did_read,
                   all_present, report, config, created, pure>>

\* (the frame of summarize_article, and its attempt counter, end with each
\* return)
\* line 138: the call returns a message without content, or content that is
\* only whitespace: summarize_article returns None or "", line 197 breaks
ApiNoText ==
    /\ ApiCalled
    /\ UNCHANGED raised
    /\ \E content \in {<<>>} \cup Responses :
          /\ NoText(content)
          /\ summary' = strip(content)
    /\ api_attempt' = FreshBudget(api_attempt)
    /\ EndDocument("ModelFailed")
    /\ UNCHANGED <<disk, status, test_mode, found, iter, success_count,
                   skipped_count, attempt, summary_json, did_read,
                   all_present, report, config, created, pure>>

\* lines 200-217: the call returns text that json.loads rejects
ApiUnparsable ==
    /\ ApiCalled
    /\ UNCHANGED raised
    /\ \E content \in Responses :
          /\ ~NoText(content)
          /\ ~json_loads(CleanSummary(strip(content))).ok
          /\ summary' = strip(content)
    /\ api_attempt' = FreshBudget(api_attempt)
    /\ IF MoreAttempts(attempt)
       THEN /\ attempt' = attempt + 1
            /\ UNCHANGED <<pc, outcome>>
       ELSE /\ EndDocument("ParseFailed")
            /\ UNCHANGED attempt
    /\ UNCHANGED <<disk, status, test_mode, found, iter, success_count,
                   skipped_count, summary_json, did_read, all_present,
                   report, config, created, pure>>

\* lines 200-209, 219, 227: the call returns text that json.loads accepts
ApiParsed ==
    /\ ApiCalled
    /\ UNCHANGED raised
    /\ \E content \in Responses :
          LET parsed == json_loads(CleanSummary(strip(content))) IN
          /\ ~NoText(content)
          /\ parsed.ok
          /\ summary' = strip(content)
          /\ summary_json' = parsed.val
          /\ IF RecordAccepted(parsed.val)
             THEN /\ pc' = "open"
                  /\ UNCHANGED outcome
             ELSE EndDocument("NoRecord")
    /\ api_attempt' = FreshBudget(api_attempt)
    /\ UNCHANGED <<disk, status, test_mode, found, iter, success_count,
                   skipped_count, attempt, did_read, all_present, report,
                   config, created, pure>>

\* -------------------------------------------------------------- the write
\* what is on disk when a write of the record is cut short
Truncated(v) ==
    {SubSeq(DumpValue(v), 1, n) : n \in 0..Min(MaxFlushed, Len(DumpValue(v)) - 1)}

\* The exception of a failed write leaves process_articles (nothing there
\* catches it); main's `except Exception` (line 318) prints "Unexpected
\* error" and exits with code 1.  No summary is printed.
Crash ==
    /\ outcome' = "StoreFailed"
    /\ ProcessState("error")
    /\ attempt' = 0
    /\ api_attempt' = 0
    /\ summary' = <<>>
    /\ summary_json' = JNull
    /\ calls' = 0
    /\ raised' = 0

\* line 222: open(json_path, 'w') creates the file, or truncates it
OpenOk ==
    /\ pc = "open"
    /\ files' = [files EXCEPT ![cur] = File(<<>>)]
    /\ opens' = [opens EXCEPT ![cur] = @ + 1]
    /\ created' = created + 1
    /\ pc' = "dump"
    /\ UNCHANGED <<ndocs, status, test_mode, found, iter, success_count,
                   skipped_count, doc_locals, outcome, calls, raised, did_read,
                   api_used, all_present, report, config, pure>>

\* line 222 raises OSError (no permission, read-only file system)
OpenFail ==
    /\ pc = "open"
    /\ Crash
    /\ UNCHANGED <<disk, test_mode, found, iter, success_count,
                   skipped_count, did_read, api_used, all_present, report,
                   config, created, pure>>

\* a success that is not counted
NotIncremented(n) == n

\* line 226: success_count += 1
Incremented(n) == n + 1

\* lines 223-226: the record is written, the file closed, the success counted
DumpOk ==
    /\ pc = "dump"
    /\ files' = [files EXCEPT ![cur] = File(DumpValue(summary_json))]
    /\ success_count' = Incremented(success_count)
    /\ EndDocument("Stored")
    /\ UNCHANGED <<ndocs, opens, status, test_mode, found, iter, skipped_count,
                   doc_locals, calls, raised, did_read, api_used,
                   all_present, report, config, created, pure>>

\* line 223 (or the close) raises OSError, e.g. the disk is full: what was
\* flushed stays in the file, the exception ends the run as in OpenFail
DumpFail ==
    /\ pc = "dump"
    /\ \E data \in Truncated(summary_json) :
          files' = [files EXCEPT ![cur] = File(data)]
    /\ Crash
    /\ UNCHANGED <<ndocs, opens, test_mode, found, iter, success_count,
                   skipped_count, did_read, api_used, all_present, report,
                   config, created, pure>>

\* ------------------------------------------------------- end of the run
\* lines 230-234: the final summary; process_articles returns and the
\* process ends, what stays is what was printed
Summary ==
    /\ pc = "loop"
    /\ pending = <<>>
    /\ report' = {<<"Processed", success_count>>, <<"Skipped", skipped_count>>}
    /\ ProcessState("summary")
    /\ cur' = 0
    /\ attempt' = 0
    /\ api_attempt' = 0
    /\ summary' = <<>>
    /\ summary_json' = JNull
    /\ outcome' = "None"
    /\ calls' = 0
    /\ raised' = 0
    /\ did_read' = FALSE
    /\ UNCHANGED <<disk, test_mode, found, total, pending, i, success_count,
                   skipped_count, api_used, all_present, config, created, pure>>

\* main line 315: KeyboardInterrupt at any point of the run ends the process
\* (exit code 0); a write in progress leaves what was flushed
Interrupt ==
    /\ pc \in {"loop", "call", "open", "dump"}
    /\ IF pc = "dump"
       THEN \E data \in Truncated(summary_json) :
               files' = [files EXCEPT ![cur] = File(data)]
       ELSE UNCHANGED files
    /\ ProcessState("interrupted")
    /\ ClearRun
    /\ UNCHANGED <<ndocs, opens, config, pure>>

\* the tool is invoked again on the same corpus
Restart ==
    /\ pc = "exit"
    /\ pc' = "start"
    /\ status' = "running"
    /\ ClearRun
    /\ config' \in {c \in Configs : ConfigPossible(c, ndocs)}
    /\ UNCHANGED <<disk, pure>>

Next ==
    \/ StartConfigError
    \/ StartNoArticles
    \/ StartRun
    \/ VisitSkip
    \/ VisitUnreadable
    \/ VisitRead
    \/ ApiRaise
    \/ ApiNoText
    \/ ApiUnparsable
    \/ ApiParsed
    \/ OpenOk
    \/ OpenFail
    \/ DumpOk
    \/ DumpFail
    \/ Summary
    \/ Interrupt
    \/ Restart

Spec == Init /\ [][Next]_vars

\* --------------------------------------- functions applied on their own
\* the variables of the pipeline
pipeline == <<ndocs, files, opens, pc, status, test_mode, found, total,
              pending, i, cur, success_count, skipped_count, attempt,
              api_attempt, summary, summary_json, outcome, calls, raised,
              did_read, api_used, all_present, report, config, created>>

\* no run of the pipeline: an empty corpus, no process
PipelineIdle ==
    /\ ndocs = 0
    /\ files = [d \in Docs |-> NoFile]
    /\ opens = [d \in Docs |-> 0]
    /\ pc = "exit"
    /\ status = "running"
    /\ test_mode = FALSE
    /\ found = 0
    /\ total = 0
    /\ pending = <<>>
    /\ i = 0
    /\ cur = 0
    /\ success_count = 0
    /\ skipped_count = 0
    /\ attempt = 0
    /\ api_attempt = 0
    /\ summary = <<>>
    /\ summary_json = JNull
    /\ outcome = "None"
    /\ calls = 0
    /\ raised = 0
    /\ did_read = FALSE
    /\ api_used = FALSE
    /\ all_present = FALSE
    /\ report = {}
    /\ config = "ok"
    /\ created = 0

\* The model responses the fence stripping is applied to, built from their
\* parts: leading whitespace, an opening fence without tag, with the tag
\* json or with the tag js, a separator, a body, a closing fence, and what
\* follows it.
FenceOpenings == {<<>>, <<FENCE>>, <<FENCE, "json">>, <<FENCE, "js">>}

FenceBodies == {RBare, REmptyObj, RGarbage, <<>>}

FenceInputs ==
    {pre \o op \o sep \o body \o cl \o post :
        pre \in {<<>>, <<"\n">>},
        op \in FenceOpenings,
        sep \in {<<>>, <<"\n">>, <<" ">>},
        body \in FenceBodies,
        cl \in {<<>>, <<FENCE>>},
        post \in {<<>>, <<"\n">>, <<"oops">>}}

FenceInit ==
    /\ PipelineIdle
    /\ stage = "response"
    /\ text_in \in FenceInputs
    /\ text_out = <<>>

\* lines 201-206 applied to the response
StripFence ==
    /\ stage = "response"
    /\ text_out' = CleanSummary(text_in)
    /\ stage' = "cleaned"
    /\ UNCHANGED <<pipeline, text_in>>

FenceNext == StripFence

FenceSpec == FenceInit /\ [][FenceNext]_vars

\* ------------------------------- src/tools/remove_base64.py on its own
\* A text is a sequence of tokens: "\n", or the content of a whole line:
\* "begin" for a header line `begin <mode> <filename>`, "end" for the line
\* `end`, "x" for any other line.
LineKinds == {"begin", "end", "x"}

RECURSIVE Join(_)
\* the lines of ls, a "\n" between each two
Join(ls) ==
    IF Len(ls) = 1 THEN <<ls[1]>> ELSE <<ls[1], "\n">> \o Join(Tail(ls))

\* the texts: up to MaxLines lines, after zero or one newline, before zero,
\* one or two newlines
Contents ==
    {lead \o Join(ls) \o trail :
        lead \in {<<>>, <<"\n">>},
        ls \in UNION {[1..n -> LineKinds] : n \in 1..MaxLines},
        trail \in {<<>>, <<"\n">>, <<"\n", "\n">>}}

RECURSIVE SkipNewlines(_, _)
\* `\n*`, greedy, from position k: the position after the newlines
SkipNewlines(s, k) ==
    IF k <= Len(s) /\ s[k] = "\n" THEN SkipNewlines(s, k + 1) ELSE k

\* pattern = r'\nbegin \d+ \S+\n.*?\nend\n*' with re.DOTALL, tried at
\* position p of s: the position after the match, 0 when there is none.
\* `.*?\nend` takes the first "\n" "end" that starts after the newline of
\* the header line.
pattern(s, p) ==
    IF p + 2 <= Len(s) /\ s[p] = "\n" /\ s[p + 1] = "begin" /\ s[p + 2] = "\n"
    THEN LET ends == {q \in (p + 3)..(Len(s) - 1) : s[q] = "\n" /\ s[q + 1] = "end"}
         IN  IF ends = {}
             THEN 0
             ELSE SkipNewlines(s, (CHOOSE q \in ends : \A r \in ends : q <= r) + 2)
    ELSE 0

RECURSIVE re_sub(_, _)
\* re.sub(pattern, '\n', s) from position p on: the leftmost match is
\* replaced and the search goes on after it
re_sub(s, p) ==
    IF p > Len(s) THEN <<>>
    ELSE IF pattern(s, p) # 0 THEN <<"\n">> \o re_sub(s, pattern(s, p))
    ELSE <<s[p]>> \o re_sub(s, p + 1)

\* remove_base64_blocks(content), lines 13-33
remove_base64_blocks(content) == re_sub(content, 1)

Base64Init ==
    /\ PipelineIdle
    /\ stage = "content"
    /\ text_in \in Contents
    /\ text_out = <<>>

\* remove_base64_blocks is applied to the content
RemoveBlocks ==
    /\ stage = "content"
    /\ text_out' = remove_base64_blocks(text_in)
    /\ stage' = "removed"
    /\ UNCHANGED <<pipeline, text_in>>

\* remove_base64_blocks is applied to its own result
RemoveAgain ==
    /\ stage = "removed"
    /\ text_in' = text_out
    /\ text_out' = remove_base64_blocks(text_out)
    /\ stage' = "again"
    /\ UNCHANGED pipeline

Base64Next == RemoveBlocks \/ RemoveAgain

Base64Spec == Base64Init /\ [][Base64Next]_vars

TypeOK ==
    /\ ndocs \in 0..MaxDocs
    /\ pc \in {"start", "loop", "call", "open", "dump", "exit"}
    /\ status \in {"running", "summary", "no_articles", "config_error",
                   "interrupted", "error"}
    /\ i + Len(pending) = total
    /\ attempt \in 0..(max_attempts - 1)
    /\ api_attempt \in 0..(max_retries - 1)
    /\ config \in Configs
    /\ created \in 0..total
    /\ stage \in {"pipeline", "response", "cleaned", "content", "removed", "again"}

\* ---------------------------------------------------------------- claims
\* API calls of the current document that returned text to the extraction loop
returned == calls - raised

\* the document at the loop head has just been dealt with
DocumentEnded == pc = "loop" /\ cur # 0

\* C1 (as claimed): a document whose sidecar exists when it is visited is not
\* read, costs no model call and is counted as skipped; a run that starts
\* with a sidecar for every document makes no model call and reports
\* skipped = number of documents found, succeeded = 0.
C1_SkippedEqualsFound ==
    /\ (DocumentEnded /\ outcome = "Skipped") => (~did_read /\ calls = 0)
    /\ (status = "summary" /\ all_present) =>
          /\ ~api_used
          /\ <<"Skipped", found>> \in report
          /\ <<"Processed", 0>> \in report

\* the step that takes a document whose sidecar exists from the list
VisitOfProcessed ==
    /\ pc = "loop"
    /\ pending # <<>>
    /\ files[Head(pending)].exists
    /\ cur' = Head(pending)

\* C1 (amended): a document whose sidecar exists when it is visited is not
\* read, no model call is made, no file is written, and it is counted as
\* skipped; a run that starts with a sidecar for every document makes no
\* model call and reports skipped = number of documents iterated (all that
\* were found in a full run, min(3, found) in test mode), succeeded = 0.
C1_SkipIdempotent ==
    /\ [][VisitOfProcessed =>
            /\ outcome' = "Skipped"
            /\ ~did_read'
            /\ calls' = 0
            /\ api_used' = api_used
            /\ UNCHANGED disk
            /\ skipped_count' = skipped_count + 1
            /\ success_count' = success_count
            /\ pc' = "loop"]_vars
    /\ []((status = "summary" /\ all_present) =>
            /\ ~api_used
            /\ total = IF test_mode THEN Min(SampleSize, found) ELSE found
            /\ <<"Skipped", total>> \in report
            /\ <<"Processed", 0>> \in report)

\* a test-mode run over a corpus larger than the sample, every document
\* processed before, has printed its summary
C1_Witness ==
    /\ status = "summary"
    /\ all_present
    /\ test_mode
    /\ found > total
    /\ <<"Skipped", total>> \in report

\* C2 (as claimed): when the model returns the empty object {}, the sidecar is
\* written with that record and the document is counted as succeeded.
C2_EmptyObjectPersisted ==
    (DocumentEnded /\ summary = REmptyObj) =>
        /\ outcome = "Stored"
        /\ files[cur] = File(DumpValue(JObj(<<>>)))

\* C3 (as claimed): a failed write of a sidecar fails that document only; the
\* run goes on with the next document and prints the final summary.
C3_WriteFailureContinues ==
    outcome = "StoreFailed" => (pc = "loop" /\ status = "running")

\* C4 (as claimed): a sidecar that was only partially written is never taken
\* for a valid artifact: a document is skipped only on a sidecar that holds
\* a complete record.
C4_PartialNeverSkipped ==
    (DocumentEnded /\ outcome = "Skipped") => json_loads(files[cur].data).ok

\* C5: every sidecar is opened for writing at most once over all runs, the
\* file a write fills is the one that write created, and an existing sidecar
\* that is not being written at that moment is never changed.
C5_WriteOnce ==
    /\ [](\A d \in Docs : opens[d] <= 1)
    /\ [](pc = "dump" => (files[cur] = File(<<>>) /\ opens[cur] = 1))
    /\ [][\A d \in Docs :
            (files[d].exists /\ ~(pc = "dump" /\ d = cur)) => files'[d] = files[d]]_vars

\* a later run has visited a document whose record an earlier run stored
C5_Witness ==
    /\ DocumentEnded
    /\ outcome = "Skipped"
    /\ opens[cur] = 1
    /\ json_loads(files[cur].data).ok

\* C6: when every API call made for a document raised, the extraction loop
\* has not gone past its first attempt and fewer than max_retries calls were
\* made so far; once the document has ended, exactly max_retries calls were
\* made, summarize_article returned None, the document is Model-Failed and
\* has no sidecar.
C6_RetryExhaustion ==
    /\ (pc = "call" /\ raised = calls) => (calls < max_retries /\ attempt = 0)
    /\ (DocumentEnded /\ calls > 0 /\ raised = calls) =>
          /\ calls = max_retries
          /\ summary = <<>>
          /\ attempt = 0
          /\ outcome = "ModelFailed"
          /\ ~files[cur].exists

\* a document has ended after API calls that all raised
C6_Witness ==
    /\ DocumentEnded
    /\ calls > 0
    /\ raised = calls
    /\ outcome = "ModelFailed"

\* the third extraction attempt got text that json.loads accepts, no call raised
ThirdAttemptParsed ==
    /\ DocumentEnded
    /\ attempt = 2
    /\ raised = 0
    /\ summary # <<>>
    /\ json_loads(CleanSummary(summary)).ok

\* C7 (as claimed): invalid JSON on extraction attempts 1 and 2 and valid JSON
\* on attempt 3, each API call succeeding: exactly 3 model invocations are
\* made and the sidecar holds the record parsed from the attempt-3 response.
C7_ThirdAttemptPersisted ==
    ThirdAttemptParsed =>
        /\ calls = 3
        /\ files[cur] = File(DumpValue(json_loads(CleanSummary(summary)).val))

\* the last extraction attempt gets text that json.loads rejects
LastAttemptUnparsable ==
    /\ pc = "call"
    /\ attempt = max_attempts - 1
    /\ calls' = calls + 1
    /\ raised' = raised
    /\ summary' # <<>>
    /\ ~json_loads(CleanSummary(summary')).ok

\* C8: never more than max_attempts responses are handed to the parser; when
\* the last of them is no valid JSON either, the document ends Parse-Failed
\* with no sidecar written and no success counted.
C8_ParseExhaustion ==
    /\ [](returned <= max_attempts /\ attempt < max_attempts)
    /\ []((DocumentEnded /\ outcome = "ParseFailed") =>
            /\ returned = max_attempts
            /\ ~files[cur].exists)
    /\ [][LastAttemptUnparsable =>
            /\ outcome' = "ParseFailed"
            /\ pc' = "loop"
            /\ UNCHANGED <<disk, success_count, skipped_count>>]_vars

\* a document has ended after three unparsable responses
C8_Witness ==
    /\ DocumentEnded
    /\ outcome = "ParseFailed"
    /\ returned = 3
    /\ ~json_loads(CleanSummary(summary)).ok

\* the outcomes of a document that C9 is about
RecoverableFailure == {"ReadFailed", "ModelFailed", "ParseFailed"}

\* C9: a read failure, a model-call failure or a parse exhaustion leaves the
\* run at the loop head with the rest of the list untouched, and from there
\* the next document is taken, or, when none is left, the summary is
\* printed (unless the operator interrupts); the run ends with an error only
\* through a failed write.
C9_FailureContinues ==
    /\ [](outcome \in RecoverableFailure => (pc = "loop" /\ status = "running"))
    /\ [](status = "error" => outcome = "StoreFailed")
    /\ [][(pc = "call" /\ outcome' \in RecoverableFailure) =>
            (pc' = "loop" /\ pending' = pending)]_vars
    /\ [][(pc = "loop" /\ outcome \in RecoverableFailure) =>
            \/ pending # <<>> /\ cur' = Head(pending) /\ pending' = Tail(pending)
            \/ pending = <<>> /\ status' = "summary"
                 /\ report' = {<<"Processed", success_count>>,
                               <<"Skipped", skipped_count>>}
            \/ status' = "interrupted"]_vars

\* a run in which the first document could not be read, and none of those
\* that followed either, has visited them all and printed its summary
C9_Witness ==
    /\ status = "summary"
    /\ total >= 2
    /\ i = total
    /\ ~api_used
    /\ report = {<<"Processed", 0>>, <<"Skipped", 0>>}

\* C10 (as claimed): the final summary states the skipped, succeeded and
\* failed counts, and the three add up to the number of documents iterated.
C10_ReportHasFailed ==
    status = "summary" =>
        \E failed \in 0..total :
            /\ <<"Failed", failed>> \in report
            /\ skipped_count + success_count + failed = i

\* the documents of the list the loop has not left behind: the current one
\* and those still to come
Unfinished == (IF cur = 0 THEN <<>> ELSE <<cur>>) \o pending

Distinct(s) == \A a, b \in DOMAIN s : s[a] = s[b] => a = b

\* C11: in sampling mode the list iterated has exactly min(3, corpus size)
\* entries, which are distinct documents of the scanned corpus; outside
\* sampling mode the list holds every scanned document; the loop takes the
\* entries one by one from the head, so each entry is iterated exactly once,
\* and a run that reaches its final summary has iterated all of them.
C11_SampleIteration ==
    /\ [](pc \in {"loop", "call", "open", "dump"} =>
            /\ found = ndocs
            /\ total = (IF test_mode THEN Min(SampleSize, found) ELSE found)
            /\ i + Len(pending) = total
            /\ Distinct(Unfinished)
            /\ Range(Unfinished) \subseteq 1..ndocs
            /\ (~test_mode /\ i = 0) => Range(pending) = 1..ndocs)
    /\ [][(cur' # cur /\ cur' # 0) =>
            /\ pc = "loop"
            /\ pending # <<>>
            /\ cur' = Head(pending)
            /\ pending' = Tail(pending)
            /\ i' = i + 1]_vars
    /\ [](status = "summary" => (i = total /\ pending = <<>>))

\* a sampling run over a corpus larger than the sample has reached its summary
C11_Witness ==
    status = "summary" /\ test_mode /\ found > SampleSize /\ i = SampleSize

\* C12: a full run starts from the list of all scanned documents in ascending
\* order of their relative path strings (an order the corpus alone fixes, the
\* paths being distinct), visits them in that order, and takes the next
\* document only at the loop head, when the previous one has been dealt with.
C12_FullRunOrder ==
    /\ [][(pc = "start" /\ pc' = "loop" /\ ~test_mode') =>
            /\ Range(pending') = 1..ndocs
            /\ \A a, b \in DOMAIN pending' :
                  a < b => LexLess(RelPath(pending'[a]), RelPath(pending'[b]))]_vars
    /\ [][(~test_mode /\ cur # 0 /\ cur' # 0 /\ cur' # cur) =>
            LexLess(RelPath(cur), RelPath(cur'))]_vars
    /\ [][(cur' # cur /\ cur' # 0) => pc = "loop"]_vars
    /\ [](pc \in {"call", "open", "dump"} => cur # 0)

\* a full run over at least three documents has reached its summary
C12_Witness ==
    status = "summary" /\ ~test_mode /\ total >= SampleSize /\ i = total
\* C13 (as claimed): a configuration error comes from a root that does not
\* exist or is not a directory, it precedes any scan, read, model call and
\* write, and it is the only error that ends a run before processing starts.
C13_OnlyBadRoot ==
    /\ [](status = "config_error" =>
            /\ config \in {"missing", "not_a_directory"}
            /\ found = 0 /\ i = 0 /\ ~api_used /\ ~did_read /\ created = 0)
    /\ [](status = "error" => i > 0)

\* C13 (amended): a configuration error comes from a missing API key, a root
\* that does not exist or a root that is not a directory, and each of them
\* always ends the run; it precedes any scan, read, model call and write; no
\* other error ends a run before the first document is taken.
C13_ConfigErrorAborts ==
    /\ [](status = "config_error" =>
            /\ config \in {"no_api_key", "missing", "not_a_directory"}
            /\ found = 0 /\ i = 0 /\ ~api_used /\ ~did_read /\ created = 0)
    /\ [][(status' = "config_error" /\ status # "config_error") =>
            (pc = "start" /\ disk' = disk)]_vars
    /\ []((pc # "start" /\ config # "ok") => status = "config_error")
    /\ [](status = "error" => i > 0)

\* the run has ended on a root that is not a directory
C13_Witness == status = "config_error" /\ config = "not_a_directory"

\* C14: a run over a corpus without .txt files ends at the scan, reporting
\* that no articles were found: no document is iterated, no model call is
\* made, no file is written and no summary counts are printed.
C14_EmptyCorpus ==
    /\ [](status = "no_articles" =>
            /\ ndocs = 0 /\ found = 0 /\ total = 0 /\ i = 0
            /\ ~api_used /\ ~did_read /\ created = 0 /\ report = {})
    /\ [][(pc = "start" /\ ConfigValid(config) /\ ndocs = 0 /\ pc' # pc) =>
            (status' = "no_articles" /\ pc' = "exit" /\ disk' = disk)]_vars

\* the run over an empty corpus has ended
C14_Witness == status = "no_articles" /\ ndocs = 0 /\ ConfigValid(config)
\* the language tags a fence is opened with
Tags == {"json", "js"}

\* the content strictly between the first and the second fence marker of s,
\* without the language tag that follows the first
BetweenFences(s) ==
    LET rest == SubSeq(s, find(s, <<FENCE>>) + 1, Len(s))
        inner == SubSeq(rest, 1, find(rest, <<FENCE>>) - 1)
    IN  IF inner # <<>> /\ Head(inner) \in Tags THEN Tail(inner) ELSE inner

\* C15: for a response that starts with a fence marker, with or without a
\* language tag, and holds a second marker, the text handed to the JSON
\* parser is the (trimmed) content strictly between the first and the second
\* marker, the tag excluded; for a response with no leading fence it is the
\* whole trimmed response; so a fenced and a bare rendering of the same
\* object give the same record.
C15_FenceAnyTag ==
    stage = "cleaned" =>
        LET s == strip(text_in) IN
        /\ (startswith(s, <<FENCE>>) /\ Len(split(s, <<FENCE>>)) >= 3) =>
              /\ text_out = strip(BetweenFences(s))
              /\ json_loads(text_out) = json_loads(strip(BetweenFences(s)))
        /\ ~startswith(s, <<FENCE>>) => text_out = s
\* what is left of the two budgets: passes of the extraction loop still to
\* start, each worth max_retries calls, less the calls of the current one
Rank == (max_attempts - attempt) * max_retries - api_attempt

\* C16: the retry loops are nested and independent.  A call that raises
\* leaves the extraction attempt as it is; an extraction attempt is consumed
\* only by a response that fails to parse, and the next one starts with a
\* fresh budget of max_retries calls; so the calls made for one document are
\* at most max_retries for each extraction attempt begun, 9 in all, and each
\* call that leaves the document in the extraction loop uses up some of the
\* remaining budget, which ends the loop.
C16_NestedRetries ==
    /\ [](calls <= max_attempts * max_retries)
    /\ [](pc = "call" =>
            /\ calls <= attempt * max_retries + api_attempt
            /\ raised >= api_attempt
            /\ Rank > 0)
    /\ [][raised' > raised => attempt' = attempt]_vars
    /\ [][attempt' > attempt =>
            /\ pc = "call"
            /\ attempt' = attempt + 1
            /\ raised' = raised
            /\ calls' = calls + 1
            /\ api_attempt' = 0
            /\ ~json_loads(CleanSummary(summary')).ok]_vars
    /\ [][(pc = "call" /\ pc' = "call") => Rank' < Rank]_vars

\* a document has ended after max_attempts * max_retries calls
C16_Witness ==
    DocumentEnded /\ calls = max_attempts * max_retries /\ outcome = "ParseFailed"
\* the terminal outcomes of a document
TerminalOutcomes ==
    {"Skipped", "ReadFailed", "ModelFailed", "ParseFailed", "Stored", "StoreFailed"}

\* C17 (as claimed): every document taken from the list ends in exactly one
\* of Skipped, Read-Failed, Model-Failed, Parse-Failed and Stored (or store
\* failure): Skipped iff its sidecar existed when it was visited, Read-Failed
\* only when the loader returned nothing, Model-Failed only when the model
\* client reported absence, Parse-Failed only when every extraction attempt
\* failed to parse, and Stored whenever an extraction attempt produced a
\* parsed record.
C17_OneTerminalOutcome ==
    /\ [](DocumentEnded =>
            /\ outcome \in TerminalOutcomes
            /\ outcome = "ReadFailed" => (did_read /\ calls = 0)
            /\ outcome = "ModelFailed" => (calls > 0 /\ summary = <<>>)
            /\ outcome = "ParseFailed" =>
                  /\ returned = max_attempts
                  /\ ~json_loads(CleanSummary(summary)).ok
            /\ (summary # <<>> /\ json_loads(CleanSummary(summary)).ok) =>
                  outcome = "Stored")
    /\ [][(cur' # cur /\ cur' # 0) =>
            (outcome' = "Skipped" <=> files[cur'].exists)]_vars
    /\ [][(pc = "dump" /\ pc' = "exit" /\ status' = "error") =>
            outcome' = "StoreFailed"]_vars
\* a step of a running process (an interrupt ends the process and with it
\* its counters)
ProcessStep == pc # "exit" /\ status' # "interrupted"

\* C18 (as claimed): at every point of a run the success counter equals the
\* number of sidecars created so far in this run; a sidecar is created only
\* for a document that had none when visited; its content is the record
\* parsed from the last response obtained for the document; the two
\* counters never decrease.
C18_CounterEqualsCreated ==
    /\ [](success_count = created)
    /\ [][created' > created =>
            (cur' = cur /\ ~files[cur].exists /\ files'[cur].exists)]_vars
    /\ []((DocumentEnded /\ outcome = "Stored") =>
            files[cur] = File(DumpValue(json_loads(CleanSummary(summary)).val)))
    /\ [][ProcessStep =>
            (success_count' >= success_count /\ skipped_count' >= skipped_count)]_vars

\* C18 (amended): the success counter equals the number of sidecars written
\* completely in this run: it equals the number created whenever no write is
\* in progress, and is one behind from the creation of a sidecar (line 222)
\* until its record is written and the file closed (line 226), for good
\* when the write fails.  The rest as claimed.
C18_CounterEqualsWritten ==
    /\ [](created \in {success_count, success_count + 1})
    /\ [](pc \in {"loop", "call", "open"} => success_count = created)
    /\ [](pc = "dump" => created = success_count + 1)
    /\ [](status = "summary" => <<"Processed", created>> \in report)
    /\ [](pc \in {"call", "open"} => ~files[cur].exists)
    /\ [][created' > created =>
            (cur' = cur /\ ~files[cur].exists /\ files'[cur] = File(<<>>))]_vars
    /\ []((DocumentEnded /\ outcome = "Stored") =>
            files[cur] = File(DumpValue(json_loads(CleanSummary(summary)).val)))
    /\ [][ProcessStep =>
            (success_count' >= success_count /\ skipped_count' >= skipped_count)]_vars

\* the second sidecar of a run has been written and counted
C18_Witness ==
    DocumentEnded /\ outcome = "Stored" /\ created > 1 /\ success_count = created
\* an API call returns without raising, with no text
EmptyAnswer ==
    /\ pc = "call"
    /\ calls' = calls + 1
    /\ raised' = raised
    /\ summary' = <<>>

\* C19 (as claimed): an API call that returns with empty or whitespace-only
\* content ends summarize_article with absence, no retry being made, and
\* the document ends as a model failure without further extraction attempt,
\* so exactly one API call is made for the document.
C19_ExactlyOneCall ==
    [][EmptyAnswer =>
        /\ pc' = "loop"
        /\ cur' = cur
        /\ outcome' = "ModelFailed"
        /\ attempt' = attempt
        /\ calls' = 1]_vars

\* C19 (amended): such a call is the last one made for the document: the
\* document ends as a model failure, with no retry, no further extraction
\* attempt, no sidecar and no success counted.  It is the only call made
\* for the document when it is the first; calls that raised before it in the
\* same summarize_article call, and calls of earlier extraction attempts
\* whose responses failed to parse, have been made as well.
C19_EmptyAnswerEnds ==
    /\ [][EmptyAnswer =>
            /\ pc' = "loop"
            /\ cur' = cur
            /\ outcome' = "ModelFailed"
            /\ attempt' = attempt
            /\ api_attempt' = 0
            /\ calls' = attempt + raised + 1
            /\ files' = files
            /\ success_count' = success_count]_vars
    /\ []((DocumentEnded /\ outcome = "ModelFailed" /\ raised = 0 /\ attempt = 0) =>
            calls = 1)

\* a document has ended on an empty answer to its first call
C19_Witness ==
    DocumentEnded /\ outcome = "ModelFailed" /\ calls = 1 /\ raised = 0
\* s holds a block: a header line and, after it, a line `end`
HasBlock(s) == \E a, b \in DOMAIN s : a < b /\ s[a] = "begin" /\ s[b] = "end"

\* C20: remove_base64_blocks removes all uuencoded blocks (a header line up
\* to the next line `end`), also a block that directly follows another one:
\* its result holds no block, and applying it to its result changes nothing.
C20_RemovesAllBlocks ==
    /\ stage = "removed" => ~HasBlock(text_out)
    /\ stage = "again" => text_out = text_in

\* two blocks, the second directly after the first, as the first
\* application and the second leave them
C20_AdjacentBlocks ==
    LET two == <<"\n", "begin", "\n", "x", "\n", "end", "\n",
                 "begin", "\n", "x", "\n", "end", "\n">>
    IN  /\ remove_base64_blocks(two) = <<"\n", "begin", "\n", "x", "\n", "end", "\n">>
        /\ remove_base64_blocks(remove_base64_blocks(two)) = <<"\n">>
====
